---- MODULE Spec2Model ----
(***************************************************************************)
(* Model of the WhatsApp summarizer bot (src/main.py): the message store,  *)
(* the per-user read cursor, the message filter, the token-budget          *)
(* truncator, the summary orchestrator and the webhook that drives them.   *)
(*                                                                         *)
(* Strings are modelled by what the code reads of them: a sender name and  *)
(* a message text by their length (apply_token_limit reads len() only),    *)
(* an inbound Body by how the webhook classifies it plus its length.       *)
(* Time is counted in whole hours, so timedelta(hours=1) is 1 and          *)
(* timedelta(days=1) is 24; datetime.now() reads the variable now.         *)
(***************************************************************************)
EXTENDS Integers, Sequences, FiniteSets, TLC

VARIABLES
    SANDBOX_MODE,    \* main.py:24, fixed at start-up
    group_messages,  \* main.py:30, defaultdict(list): known group ids -> log
    user_last_read,  \* main.py:31, defaultdict(dict): author -> (group id -> time)
    last_requester,  \* main.py:37, group id -> phone
    now,             \* the wall clock read by datetime.now()
    pc,              \* position of the webhook handler being run
    ev,              \* the inbound event being handled
    intent,          \* value returned by parse_command_intent
    summary,         \* value returned by generate_group_summary
    sent,            \* outcome of the last outbound send of the handler
    response,        \* what the transport got back for the last finished event
    nevents,         \* number of events received so far
    appended,        \* history: every message ever appended, per group id
    call,            \* the last call of a core function, with its arguments
    filtered,        \* value returned by the last filter_messages call
    truncated        \* value returned by the last apply_token_limit call

vars == <<SANDBOX_MODE, group_messages, user_last_read, last_requester, now,
          pc, ev, intent, summary, sent, response, nevents, appended,
          call, filtered, truncated>>

-----------------------------------------------------------------------------
(* Program constants *)

SANDBOX_GROUP_ID == "group_test"
MAX_TOKENS_PER_SUMMARY == 8000
ESTIMATED_CHARS_PER_TOKEN == 4
MAX_RETAINED == 2000
LAST_READ_FALLBACK == 50
ALL_CAP == 100
ONE_HOUR == 1
TWO_HOURS == 2
ONE_DAY == 24

Users == {"u1", "u2"}
Groups == {"g1", "g2", SANDBOX_GROUP_ID}
NoCall == [fn |-> "none"]

TimeFilters == {"today", "last_hour", "last_2_hours", "last_day", "all", "weekly"}

-----------------------------------------------------------------------------
(* Sequence helpers; a list comprehension [m for m in xs if p(m)] is SelectSeq *)

\* Python's xs[-n:] if len(xs) > n else xs
LastN(xs, n) ==
    IF Len(xs) > n THEN SubSeq(xs, Len(xs) - n + 1, Len(xs)) ELSE xs

\* len(m['sender']) + len(m['text'])
MsgChars(m) == m.sender + m.text

\* sum(len(m['sender']) + len(m['text']) for m in xs[lo..hi]), by halves
RECURSIVE SumRange(_, _, _)
SumRange(xs, lo, hi) ==
    IF lo > hi THEN 0
    ELSE IF lo = hi THEN MsgChars(xs[lo])
    ELSE LET mid == (lo + hi) \div 2
         IN  SumRange(xs, lo, mid) + SumRange(xs, mid + 1, hi)

SumChars(xs) == SumRange(xs, 1, Len(xs))

-----------------------------------------------------------------------------
(* filter_messages, main.py:254-290 *)

\* user_last_read.get(author, {}).get(group_id); None is modelled as -1
LastReadTime(ulr, author, group_id) ==
    IF author \in DOMAIN ulr /\ group_id \in DOMAIN ulr[author]
    THEN ulr[author][group_id]
    ELSE -1

\* mutant: the cursor boundary taken inclusively
LastReadStageInclusive(messages, last_read_time) ==
    IF last_read_time # -1
    THEN LET keep(m) == m.timestamp >= last_read_time
         IN  SelectSeq(messages, keep)
    ELSE LastN(messages, LAST_READ_FALLBACK)

\* mutant: the fallback keeps the first 50 messages instead of the last 50
LastReadStageHead(messages, last_read_time) ==
    IF last_read_time # -1
    THEN LET keep(m) == m.timestamp > last_read_time
         IN  SelectSeq(messages, keep)
    ELSE IF Len(messages) > LAST_READ_FALLBACK
         THEN SubSeq(messages, 1, LAST_READ_FALLBACK) ELSE messages

\* main.py:262-267
LastReadStage(messages, last_read_time) ==
    IF last_read_time # -1
    THEN LET keep(m) == m.timestamp > last_read_time
         IN  SelectSeq(messages, keep)
    ELSE LastN(messages, LAST_READ_FALLBACK)

\* now.replace(hour=0, minute=0, second=0, microsecond=0)
StartOfDay(t) == t - (t % ONE_DAY)

\* mutant: the "all" cap applied whatever from_last_read is, and off by one
TimeStageCapAlways(messages, time_filter, from_last_read, t) ==
    IF time_filter = "all" THEN LastN(messages, ALL_CAP - 1) ELSE messages

\* mutant: the last branch written as a plain `else`, so every value that is
\* no time window gets the cap of "all"
TimeStageElseCap(messages, time_filter, from_last_read, t) ==
    IF time_filter = "today"
    THEN LET keep(m) == m.timestamp >= StartOfDay(t) IN SelectSeq(messages, keep)
    ELSE IF time_filter = "last_hour"
    THEN LET keep(m) == m.timestamp >= t - ONE_HOUR IN SelectSeq(messages, keep)
    ELSE IF time_filter = "last_2_hours"
    THEN LET keep(m) == m.timestamp >= t - TWO_HOURS IN SelectSeq(messages, keep)
    ELSE IF time_filter = "last_day"
    THEN LET keep(m) == m.timestamp >= t - ONE_DAY IN SelectSeq(messages, keep)
    ELSE LastN(messages, ALL_CAP)

\* main.py:270-288
TimeStage(messages, time_filter, from_last_read, t) ==
    IF time_filter = "today"
    THEN LET keep(m) == m.timestamp >= StartOfDay(t) IN SelectSeq(messages, keep)
    ELSE IF time_filter = "last_hour"
    THEN LET keep(m) == m.timestamp >= t - ONE_HOUR IN SelectSeq(messages, keep)
    ELSE IF time_filter = "last_2_hours"
    THEN LET keep(m) == m.timestamp >= t - TWO_HOURS IN SelectSeq(messages, keep)
    ELSE IF time_filter = "last_day"
    THEN LET keep(m) == m.timestamp >= t - ONE_DAY IN SelectSeq(messages, keep)
    ELSE IF time_filter = "all" /\ ~from_last_read
    THEN LastN(messages, ALL_CAP)
    ELSE messages

\* main.py:254-290; ulr and t are the globals user_last_read and datetime.now()
filter_messages(messages, author, group_id, time_filter, from_last_read, ulr, t) ==
    LET stage1 == IF from_last_read
                  THEN LastReadStage(messages, LastReadTime(ulr, author, group_id))
                  ELSE messages
    IN  TimeStage(stage1, time_filter, from_last_read, t)

-----------------------------------------------------------------------------
(* apply_token_limit, main.py:293-316 *)

\* chars / ESTIMATED_CHARS_PER_TOKEN > MAX_TOKENS_PER_SUMMARY.  The code divides
\* in floating point; a char count below 2^51 divided by 4 is exact, so the
\* comparison is the one on integers scaled by 4.
OverBudget(chars) == chars > MAX_TOKENS_PER_SUMMARY * ESTIMATED_CHARS_PER_TOKEN

\* main.py:305-313: the walk from the newest message backward.  i is the index
\* of the message looked at, current the chars already included.
RECURSIVE TruncateLoop(_, _, _, _)
TruncateLoop(messages, i, current, acc) ==
    IF i = 0 THEN acc
    ELSE IF OverBudget(current + MsgChars(messages[i])) THEN acc
    ELSE TruncateLoop(messages, i - 1, current + MsgChars(messages[i]),
                      <<messages[i]>> \o acc)

\* mutant: the walk skips a message that does not fit and goes on (continue
\* instead of break)
RECURSIVE TruncateLoopSkip(_, _, _, _)
TruncateLoopSkip(messages, i, current, acc) ==
    IF i = 0 THEN acc
    ELSE IF OverBudget(current + MsgChars(messages[i]))
    THEN TruncateLoopSkip(messages, i - 1, current, acc)
    ELSE TruncateLoopSkip(messages, i - 1, current + MsgChars(messages[i]),
                          <<messages[i]>> \o acc)

\* mutant: continue instead of break
apply_token_limit_skip(messages) ==
    IF ~OverBudget(SumChars(messages)) THEN messages
    ELSE TruncateLoopSkip(messages, Len(messages), 0, <<>>)

\* mutant: tokens estimated with floor division (//) before the comparison
apply_token_limit_floor(messages) ==
    IF SumChars(messages) \div ESTIMATED_CHARS_PER_TOKEN <= MAX_TOKENS_PER_SUMMARY
    THEN messages
    ELSE TruncateLoop(messages, Len(messages), 0, <<>>)

\* main.py:293-316
apply_token_limit(messages) ==
    IF ~OverBudget(SumChars(messages)) THEN messages
    ELSE TruncateLoop(messages, Len(messages), 0, <<>>)

-----------------------------------------------------------------------------
(* store_group_message, main.py:383-397 *)

\* group_messages[group_id] read without creating the key
GetLog(gm, group_id) == IF group_id \in DOMAIN gm THEN gm[group_id] ELSE <<>>

\* The dict built at main.py:386-391.  id is the message's arrival ordinal in
\* its group: it stands for the identity of the dict object, so that two
\* messages of equal content stay distinguishable.
Message(author, sender_name, text, t, ordinal) ==
    [author |-> author, sender |-> sender_name, text |-> text,
     timestamp |-> t, id |-> ordinal]

\* dict assignment d[k] = v
DictSet(d, k, v) == [x \in DOMAIN d \cup {k} |-> IF x = k THEN v ELSE d[x]]

\* mutant: the cap keeps the first MAX_RETAINED messages ([:2000])
store_group_message_head(gm, group_id, msg) ==
    LET grown == Append(GetLog(gm, group_id), msg)
    IN  DictSet(gm, group_id,
                IF Len(grown) > MAX_RETAINED
                THEN SubSeq(grown, 1, MAX_RETAINED) ELSE grown)

\* mutant: the new message is put at the front of the log (insert(0, ...))
store_group_message_front(gm, group_id, msg) ==
    LET grown == <<msg>> \o GetLog(gm, group_id)
    IN  DictSet(gm, group_id,
                IF Len(grown) > MAX_RETAINED
                THEN LastN(grown, MAX_RETAINED) ELSE grown)

\* main.py:386-395
store_group_message(gm, group_id, msg) ==
    LET grown == Append(GetLog(gm, group_id), msg)
    IN  DictSet(gm, group_id,
                IF Len(grown) > MAX_RETAINED
                THEN LastN(grown, MAX_RETAINED) ELSE grown)

-----------------------------------------------------------------------------
(* Bounds and input sets of the specifications *)

MaxTime == 2         \* the latest hour the clock reaches
MaxAppends == 3      \* SpecStore: store_group_message calls per behaviour
MaxTruncLen == 3     \* SpecTrunc: length of the enumerated short inputs
LongLen == 10        \* SpecTrunc: length of the uniform long inputs

EmptyDict == [x \in {} |-> 0]
NoEvent == [route |-> "none"]
NoIntent == [shape |-> "none", action |-> "absent", time_filter |-> "absent",
             from_last_read |-> "absent"]
NoSummary == [kind |-> "none"]

\* len("Unknown"), the sender name main.py:55 falls back to, and a short name
SenderLens == {7}
BudgetChars == MAX_TOKENS_PER_SUMMARY * ESTIMATED_CHARS_PER_TOKEN

\* n messages stored by u1, k per hour, the first at hour t0
Prefilled(n, t0, k) ==
    [i \in 1..n |-> Message("u1", 7, 3, t0 + ((i - 1) \div k), i)]

\* datetime.now(): a read of the wall clock returns t, no earlier than the
\* read before it
ClockRead(t) ==
    /\ t \in now..MaxTime
    /\ now' = t

\* Values of the variables a specification of one core function leaves alone
HandlerIdle ==
    /\ SANDBOX_MODE = FALSE
    /\ last_requester = EmptyDict
    /\ pc = "idle"
    /\ ev = NoEvent
    /\ intent = NoIntent
    /\ summary = NoSummary
    /\ sent = "none"
    /\ response = "none"
    /\ nevents = 0
    /\ call = NoCall

-----------------------------------------------------------------------------
(* SpecStore: store_group_message alone, from logs near the retention cap *)

StoreInitLens == {0, MAX_RETAINED - 2, MAX_RETAINED - 1, MAX_RETAINED}

InitStore ==
    /\ HandlerIdle
    /\ now = 0
    /\ \E n \in StoreInitLens :
          /\ group_messages = IF n = 0 THEN EmptyDict
                              ELSE [g \in {"g1"} |-> Prefilled(n, 0, MAX_RETAINED)]
          /\ appended = [g \in Groups |->
                           IF g = "g1" THEN Prefilled(n, 0, MAX_RETAINED) ELSE <<>>]
    /\ user_last_read = EmptyDict
    /\ filtered = <<>>
    /\ truncated = <<>>

StoreCall(group_id, author, sender_name, text, t) ==
    /\ nevents < MaxAppends
    /\ ClockRead(t)
    /\ LET msg == Message(author, sender_name, text, t,
                          Len(appended[group_id]) + 1)
       IN  /\ group_messages' = store_group_message(group_messages, group_id, msg)
           /\ appended' = [appended EXCEPT ![group_id] = Append(@, msg)]
           /\ call' = [fn |-> "store_group_message", group_id |-> group_id,
                       message |-> msg]
    /\ nevents' = nevents + 1
    /\ UNCHANGED <<SANDBOX_MODE, user_last_read, last_requester, pc, ev,
                   intent, summary, sent, response, filtered, truncated>>

NextStore ==
    \E g \in {"g1", "g2"}, a \in Users, s \in SenderLens, x \in {3},
       t \in 0..MaxTime :
        StoreCall(g, a, s, x, t)

SpecStore == InitStore /\ [][NextStore]_vars

-----------------------------------------------------------------------------
(* SpecFilter: filter_messages alone, over logs around the 50 and 100 caps *)

FilterLens == {0, 3, 4, LAST_READ_FALLBACK - 1, LAST_READ_FALLBACK,
               LAST_READ_FALLBACK + 1, ALL_CAP - 1, ALL_CAP, ALL_CAP + 1,
               ALL_CAP + LAST_READ_FALLBACK}

LastStamp(log) == IF log = <<>> THEN 0 ELSE log[Len(log)].timestamp

InitFilter ==
    /\ HandlerIdle
    /\ \E n \in FilterLens, k \in {1, LAST_READ_FALLBACK} :
          LET log == Prefilled(n, 0, k)
          IN  /\ group_messages = IF n = 0 THEN EmptyDict ELSE [g \in {"g1"} |-> log]
              /\ appended = [g \in Groups |-> IF g = "g1" THEN log ELSE <<>>]
              /\ now \in {LastStamp(log), LastStamp(log) + 1,
                          LastStamp(log) + ONE_DAY + 1}
              /\ user_last_read \in
                    {EmptyDict} \cup
                    { [a \in {"u1"} |-> [g \in {"g1"} |-> t]] :
                        t \in {x \in {0, 1, 2, LastStamp(log) - 1, LastStamp(log), now} :
                                 x >= 0 /\ x <= now} }
    /\ filtered = <<>>
    /\ truncated = <<>>

FilterCall(author, group_id, time_filter, from_last_read) ==
    /\ call = NoCall
    /\ filtered' = filter_messages(GetLog(group_messages, group_id), author,
                                   group_id, time_filter, from_last_read,
                                   user_last_read, now)
    /\ call' = [fn |-> "filter_messages",
                messages |-> GetLog(group_messages, group_id),
                author |-> author, group_id |-> group_id,
                time_filter |-> time_filter, from_last_read |-> from_last_read,
                last_read_time |-> LastReadTime(user_last_read, author, group_id),
                now |-> now]
    /\ UNCHANGED <<SANDBOX_MODE, group_messages, user_last_read, last_requester,
                   now, pc, ev, intent, summary, sent, response, nevents,
                   appended, truncated>>

NextFilter ==
    \E a \in Users, g \in {"g1", "g2"}, tf \in TimeFilters, flr \in BOOLEAN :
        FilterCall(a, g, tf, flr)

SpecFilter == InitFilter /\ [][NextFilter]_vars

-----------------------------------------------------------------------------
(* SpecTrunc: apply_token_limit alone, over inputs around the 8000-token budget *)

\* text lengths which, with a 7-char sender, give 7, 10, half the budget, half
\* the budget + 3, the budget and the budget + 3 chars
TruncTexts == {0, 3, BudgetChars \div 2 - 7, BudgetChars \div 2 - 4,
               BudgetChars - 7, BudgetChars - 4}

ShortInputs ==
    UNION { [1..n -> TruncTexts] : n \in 0..MaxTruncLen }

InitTrunc ==
    /\ HandlerIdle
    /\ now = 0
    /\ group_messages = EmptyDict
    /\ appended = [g \in Groups |-> <<>>]
    /\ user_last_read = EmptyDict
    /\ \/ \E texts \in ShortInputs :
             filtered = [i \in 1..Len(texts) |-> Message("u1", 7, texts[i], 0, i)]
       \/ \E x \in {BudgetChars \div 8 - 7, BudgetChars \div 8 - 6} :
             filtered = [i \in 1..LongLen |-> Message("u1", 7, x, 0, i)]
    /\ truncated = <<>>

TruncCall ==
    /\ call = NoCall
    /\ truncated' = apply_token_limit(filtered)
    /\ call' = [fn |-> "apply_token_limit", messages |-> filtered]
    /\ UNCHANGED <<SANDBOX_MODE, group_messages, user_last_read, last_requester,
                   now, pc, ev, intent, summary, sent, response, nevents,
                   appended, filtered>>

NextTrunc == TruncCall

SpecTrunc == InitTrunc /\ [][NextTrunc]_vars

-----------------------------------------------------------------------------
(* generate_group_summary and its helpers, main.py:228-251, 319-380 *)

\* The fixed string returned at main.py:380
FailureSentinel == [kind |-> "failed"]

\* main.py:319-331
get_time_range_text(time_filter, from_last_read) ==
    IF from_last_read THEN "since your last read"
    ELSE IF time_filter = "today" THEN "from today"
    ELSE IF time_filter = "last_hour" THEN "from last hour"
    ELSE IF time_filter = "last_2_hours" THEN "from last 2 hours"
    ELSE IF time_filter = "last_day" THEN "from last 24 hours"
    ELSE ""

\* main.py:334-380; api_ok is whether anthropic_client.messages.create and the
\* reads of its response raise nothing
generate_summary(messages, time_filter, api_ok) ==
    IF api_ok THEN [kind |-> "ai_text", of |-> Len(messages)]
    ELSE FailureSentinel

\* mutant: the emptiness test written as `if not group_messages[group_id]`,
\* which makes the defaultdict create the key
LogReadDefaultdict(gm, group_id) ==
    IF group_id \notin DOMAIN gm
    THEN [log |-> <<>>, gm |-> DictSet(gm, group_id, <<>>)]
    ELSE [log |-> gm[group_id], gm |-> gm]

\* main.py:231-234: the log read by generate_group_summary and the store as
\* the read leaves it (`group_id not in group_messages` short-circuits the
\* subscript, so no key is created)
LogRead(gm, group_id) ==
    IF group_id \notin DOMAIN gm
    THEN [log |-> <<>>, gm |-> gm]
    ELSE [log |-> gm[group_id], gm |-> gm]

\* mutant: an empty filter result answered with the text for an empty log
generate_group_summary_one_sentinel(gm, ulr, group_id, author, time_filter, from_last_read, t, api_ok) ==
    LET read == LogRead(gm, group_id)
        flt  == filter_messages(read.log, author, group_id, time_filter,
                                from_last_read, ulr, t)
        trn  == apply_token_limit(flt)
    IN  IF read.log = <<>> \/ flt = <<>>
        THEN [result |-> [kind |-> "no_messages"], gm |-> read.gm,
              filtered |-> <<>>, truncated |-> <<>>, summarizer |-> "not_called"]
        ELSE [result |-> [kind |-> "summary", msg_count |-> Len(trn),
                          time_info |-> get_time_range_text(time_filter,
                                                            from_last_read),
                          body |-> generate_summary(trn, time_filter, api_ok)],
              gm |-> read.gm,
              filtered |-> flt, truncated |-> trn,
              summarizer |-> IF api_ok THEN "ok" ELSE "failed"]

\* main.py:228-251.  Returns the text (result), the store as the call leaves
\* it (gm), and what the call passed on the way: filtered is the value of
\* filter_messages, truncated that of apply_token_limit, summarizer whether
\* the external summarizer was called and how it ended.
generate_group_summary(gm, ulr, group_id, author, time_filter, from_last_read, t, api_ok) ==
    LET read == LogRead(gm, group_id)
        flt  == filter_messages(read.log, author, group_id, time_filter,
                                from_last_read, ulr, t)
        trn  == apply_token_limit(flt)
    IN  IF read.log = <<>>
        THEN [result |-> [kind |-> "no_messages"], gm |-> read.gm,
              filtered |-> <<>>, truncated |-> <<>>, summarizer |-> "not_called"]
        ELSE IF flt = <<>>
        THEN [result |-> [kind |-> "none_found", time_filter |-> time_filter],
              gm |-> read.gm,
              filtered |-> flt, truncated |-> <<>>, summarizer |-> "not_called"]
        ELSE [result |-> [kind |-> "summary", msg_count |-> Len(trn),
                          time_info |-> get_time_range_text(time_filter,
                                                            from_last_read),
                          body |-> generate_summary(trn, time_filter, api_ok)],
              gm |-> read.gm,
              filtered |-> flt, truncated |-> trn,
              summarizer |-> IF api_ok THEN "ok" ELSE "failed"]

-----------------------------------------------------------------------------
(* The webhook, main.py:39-170, 189-225, 402-449 *)

MaxEvents == 2       \* inbound events per behaviour

\* How main.py:72-81 reads a stripped Body:
\*   "help"    - it is 'help' or '/help'
\*   "keyword" - it is 'summary', '/summary' or '/sum'
\*   "mention" - it contains a bot trigger (is_bot_mentioned)
\*   "plain"   - none of these
BodyClasses == {"help", "keyword", "mention", "plain"}

\* len(Body.strip()) of the bodies drawn: 'help', 'summary', '@bot summarize',
\* and as regular messages a short text from u1 and, from u2, a text that with
\* its sender exceeds the token budget
BodyLen(from, cls) ==
    IF cls = "help" THEN 4
    ELSE IF cls = "keyword" THEN 7
    ELSE IF cls = "mention" THEN 14
    ELSE IF from = "u1" THEN 3
    ELSE BudgetChars - 4

\* The form fields of one POST /webhook, main.py:40-48
Events ==
    { [From |-> f, cls |-> c, len |-> BodyLen(f, c), sender |-> s, Author |-> a,
       GroupId |-> g] :
        f \in Users, c \in BodyClasses, s \in SenderLens, a \in {"none", "u2"},
        g \in {"none", "g1", "g2"} }

\* main.py:58-69: author, group_id, is_group_message
Author(e) == IF SANDBOX_MODE THEN e.From
             ELSE IF e.Author # "none" THEN e.Author ELSE e.From
GroupId(e) == IF SANDBOX_MODE THEN SANDBOX_GROUP_ID
              ELSE IF e.GroupId # "none" THEN e.GroupId ELSE e.From
IsGroupMessage(e) == SANDBOX_MODE \/ e.GroupId # "none"

\* main.py:172-176
is_bot_mentioned(e) == e.cls = "mention"

\* main.py:75-102: the branch the webhook takes
Route(e) ==
    IF SANDBOX_MODE
    THEN IF e.cls = "help" THEN "dm"
         ELSE IF is_bot_mentioned(e) \/ e.cls = "keyword" THEN "command"
         ELSE "store"
    ELSE IF is_bot_mentioned(e) /\ IsGroupMessage(e) THEN "command"
         ELSE IF IsGroupMessage(e) THEN "store"
         ELSE "dm"

\* The webhook is a coroutine on the server's single event loop, and what it
\* awaits (main.py:90, 98, 116) never suspends: parse_command_intent and
\* generate_summary call the synchronous anthropic client (main.py:193, 347).
\* So a handler runs from its first line to its return before the loop starts
\* the handler of another event.
Receivable(e) ==
    /\ pc = "idle"
    /\ nevents < MaxEvents
    /\ SANDBOX_MODE => (e.Author = "none" /\ e.GroupId = "none")

Accept(e) ==
    /\ ev' = [From |-> e.From, sender |-> e.sender, author |-> Author(e),
              group_id |-> GroupId(e), route |-> Route(e)]
    /\ nevents' = nevents + 1
    /\ intent' = NoIntent
    /\ summary' = NoSummary
    /\ response' = "none"

\* main.py:93 and 100: a regular message is stored, then the handler returns
WebhookStore(e, t) ==
    /\ Receivable(e)
    /\ Route(e) = "store"
    /\ Accept(e)
    /\ ClockRead(t)
    /\ LET msg == Message(Author(e), e.sender, e.len, t,
                          Len(appended[GroupId(e)]) + 1)
       IN  /\ group_messages' = store_group_message(group_messages, GroupId(e), msg)
           /\ appended' = [appended EXCEPT ![GroupId(e)] = Append(@, msg)]
           /\ call' = [fn |-> "store_group_message", group_id |-> GroupId(e),
                       message |-> msg]
    /\ sent' = "none"
    /\ pc' = "respond"
    /\ UNCHANGED <<SANDBOX_MODE, user_last_read, last_requester,
                   filtered, truncated>>

\* main.py:80 and 102, 402-449: handle_dm_command sends one of its two texts
\* through send_dm, which swallows a failure of the Twilio call
WebhookDm(e, twilio_ok) ==
    /\ Receivable(e)
    /\ Route(e) = "dm"
    /\ Accept(e)
    /\ sent' = IF twilio_ok THEN "ok" ELSE "failed"
    /\ call' = [fn |-> "handle_dm_command", to |-> e.From]
    /\ pc' = "respond"
    /\ UNCHANGED <<SANDBOX_MODE, group_messages, user_last_read, last_requester,
                   now, appended, filtered, truncated>>

\* mutant: a command is stored as a message of the group before it is handled
WebhookCommandAlsoStores(e) ==
    /\ Receivable(e)
    /\ Route(e) = "command"
    /\ Accept(e)
    /\ last_requester' = IF SANDBOX_MODE
                         THEN DictSet(last_requester, GroupId(e), e.From)
                         ELSE last_requester
    /\ LET msg == Message(Author(e), e.sender, e.len, now,
                          Len(appended[GroupId(e)]) + 1)
       IN  /\ group_messages' = store_group_message(group_messages, GroupId(e), msg)
           /\ appended' = [appended EXCEPT ![GroupId(e)] = Append(@, msg)]
    /\ sent' = "none"
    /\ call' = [fn |-> "handle_group_command", group_id |-> GroupId(e)]
    /\ pc' = "parse"
    /\ UNCHANGED <<SANDBOX_MODE, user_last_read, now, filtered, truncated>>

\* main.py:81-90 and 96-98: up to the call of parse_command_intent
WebhookCommand(e) ==
    /\ Receivable(e)
    /\ Route(e) = "command"
    /\ Accept(e)
    /\ last_requester' = IF SANDBOX_MODE
                         THEN DictSet(last_requester, GroupId(e), e.From)
                         ELSE last_requester
    /\ sent' = "none"
    /\ call' = [fn |-> "handle_group_command", group_id |-> GroupId(e)]
    /\ pc' = "parse"
    /\ UNCHANGED <<SANDBOX_MODE, group_messages, user_last_read, now, appended,
                   filtered, truncated>>

\* What parse_command_intent can return (main.py:189-225): the classifier's
\* JSON when json.loads accepts it - an object with or without each of the
\* three fields, or a JSON value that is no object - and {"action": "unknown"}
\* when the call or the parse raises.
Intents ==
    { [shape |-> "object", action |-> "summarize", time_filter |-> tf,
       from_last_read |-> flr] :
        tf \in {"all", "last_hour"}, flr \in {"true", "false"} }
    \cup
    { [shape |-> "object", action |-> a, time_filter |-> "absent",
       from_last_read |-> "absent"] :
        a \in {"summarize", "help", "unknown", "absent"} }
    \cup
    { [shape |-> "other", action |-> "absent", time_filter |-> "absent",
       from_last_read |-> "absent"] }

\* What the classifier call of main.py:193-220 can end in: the call raises,
\* its text is no JSON (json.loads raises), or its text is a JSON value
ClassifierOutcomes ==
    { [kind |-> k, value |-> NoIntent] : k \in {"raises", "not_json"} }
    \cup { [kind |-> "json", value |-> v] : v \in Intents }

\* main.py:189-225: the parsed JSON value as it is, or {"action": "unknown"}
\* from the except branch
parse_command_intent(outcome) ==
    IF outcome.kind = "json" THEN outcome.value
    ELSE [shape |-> "object", action |-> "unknown", time_filter |-> "absent",
          from_last_read |-> "absent"]

\* main.py:116
ParseIntent(outcome) ==
    /\ pc = "parse"
    /\ intent' = parse_command_intent(outcome)
    /\ call' = [fn |-> "parse_command_intent", classifier |-> outcome]
    /\ pc' = "dispatch"
    /\ UNCHANGED <<SANDBOX_MODE, group_messages, user_last_read, last_requester,
                   now, ev, summary, sent, response, nevents, appended,
                   filtered, truncated>>

\* intent['action'] (main.py:120) raises TypeError on a value that is no
\* object and KeyError on an object without the key
ActionRaises(i) == i.shape = "other" \/ i.action = "absent"

\* intent.get('time_filter', 'all'), intent.get('from_last_read', False)
IntentTimeFilter(i) == IF i.time_filter = "absent" THEN "all" ELSE i.time_filter
IntentFromLastRead(i) == i.from_last_read = "true"

\* main.py:120: the subscript raises; the exception leaves handle_group_command
\* and whatsapp_webhook
DispatchRaise ==
    /\ pc = "dispatch"
    /\ ActionRaises(intent)
    /\ pc' = "raise"
    /\ UNCHANGED <<SANDBOX_MODE, group_messages, user_last_read, last_requester,
                   now, ev, intent, summary, sent, response, nevents, appended,
                   call, filtered, truncated>>

\* main.py:120-130: generate_group_summary, the external summarizer included
DispatchSummarize(api_ok, t) ==
    /\ pc = "dispatch"
    /\ ~ActionRaises(intent)
    /\ intent.action = "summarize"
    /\ LET tf  == IntentTimeFilter(intent)
           flr == IntentFromLastRead(intent)
           r   == generate_group_summary(group_messages, user_last_read,
                                         ev.group_id, ev.author, tf, flr, t,
                                         api_ok)
       IN  /\ IF GetLog(group_messages, ev.group_id) # <<>>
              THEN ClockRead(t)          \* main.py:258, in filter_messages
              ELSE t = now /\ now' = now
           /\ summary' = r.result
           /\ group_messages' = r.gm
           /\ filtered' = r.filtered
           /\ truncated' = r.truncated
           /\ call' = [fn |-> "generate_group_summary",
                       group_id |-> ev.group_id, author |-> ev.author,
                       time_filter |-> tf, from_last_read |-> flr,
                       summarizer |-> r.summarizer]
    /\ pc' = "send"
    /\ UNCHANGED <<SANDBOX_MODE, user_last_read, last_requester, ev, intent,
                   sent, response, nevents, appended>>

\* main.py:141-147: any other action gets the guidance text
DispatchOther ==
    /\ pc = "dispatch"
    /\ ~ActionRaises(intent)
    /\ intent.action # "summarize"
    /\ summary' = [kind |-> "guidance"]
    /\ pc' = "send"
    /\ UNCHANGED <<SANDBOX_MODE, group_messages, user_last_read, last_requester,
                   now, ev, intent, sent, response, nevents, appended, call,
                   filtered, truncated>>

\* main.py:150-170: send_group_message; requester_phone is the event's From,
\* so a destination is always found, and a failure of the Twilio call is
\* swallowed
SendGroupMessage(twilio_ok) ==
    /\ pc = "send"
    /\ sent' = IF twilio_ok THEN "ok" ELSE "failed"
    /\ pc' = IF summary.kind = "guidance" THEN "respond" ELSE "cursor"
    /\ UNCHANGED <<SANDBOX_MODE, group_messages, user_last_read, last_requester,
                   now, ev, intent, summary, response, nevents, appended, call,
                   filtered, truncated>>

\* main.py:139: user_last_read[author][group_id] = datetime.now()
CursorWrite(ulr, author, group_id, t) ==
    DictSet(ulr, author,
            DictSet(IF author \in DOMAIN ulr THEN ulr[author] ELSE EmptyDict,
                    group_id, t))

\* main.py:138-139
UpdateLastRead(t) ==
    /\ pc = "cursor"
    /\ ClockRead(t)
    /\ user_last_read' = CursorWrite(user_last_read, ev.author, ev.group_id, t)
    /\ pc' = "respond"
    /\ UNCHANGED <<SANDBOX_MODE, group_messages, last_requester, ev, intent,
                   summary, sent, response, nevents, appended, call, filtered,
                   truncated>>

\* The handler's locals go out of scope when it ends
Return(status) ==
    /\ response' = status
    /\ pc' = "idle"
    /\ ev' = NoEvent
    /\ intent' = NoIntent
    /\ summary' = NoSummary
    /\ sent' = "none"
    /\ call' = NoCall
    /\ filtered' = <<>>
    /\ truncated' = <<>>
    /\ UNCHANGED <<SANDBOX_MODE, group_messages, user_last_read, last_requester,
                   now, nevents, appended>>

\* main.py:104
Respond ==
    /\ pc = "respond"
    /\ Return("received")

\* The exception of main.py:120 reaches the server, which answers the
\* transport with an error instead of the handler's return value
Raise ==
    /\ pc = "raise"
    /\ Return("error")

\* main.py:24-37: the module's globals after import
Init ==
    /\ SANDBOX_MODE \in BOOLEAN
    /\ group_messages = EmptyDict
    /\ user_last_read = EmptyDict
    /\ last_requester = EmptyDict
    /\ now = 0
    /\ pc = "idle"
    /\ ev = NoEvent
    /\ intent = NoIntent
    /\ summary = NoSummary
    /\ sent = "none"
    /\ response = "none"
    /\ nevents = 0
    /\ appended = [g \in Groups |-> <<>>]
    /\ call = NoCall
    /\ filtered = <<>>
    /\ truncated = <<>>

Next ==
    \/ \E e \in Events, t \in 0..MaxTime : WebhookStore(e, t)
    \/ \E e \in Events, ok \in BOOLEAN : WebhookDm(e, ok)
    \/ \E e \in Events : WebhookCommand(e)
    \/ \E o \in ClassifierOutcomes : ParseIntent(o)
    \/ DispatchRaise
    \/ \E ok \in BOOLEAN, t \in 0..MaxTime : DispatchSummarize(ok, t)
    \/ DispatchOther
    \/ \E ok \in BOOLEAN : SendGroupMessage(ok)
    \/ \E t \in 0..MaxTime : UpdateLastRead(t)
    \/ Respond
    \/ Raise

Spec == Init /\ [][Next]_vars

-----------------------------------------------------------------------------
(* Properties of the core functions *)

Range(xs) == {xs[i] : i \in 1..Len(xs)}
Min(a, b) == IF a <= b THEN a ELSE b

\* xs keeps the arrival order of the messages it holds
InArrivalOrder(xs) == \A i \in 1..(Len(xs) - 1) : xs[i].id < xs[i + 1].id

\* xs is the last k elements of ys, in the order of ys
IsLastK(xs, ys, k) ==
    /\ Len(xs) = k
    /\ k <= Len(ys)
    /\ \A i \in 1..k : xs[i] = ys[Len(ys) - k + i]

\* C1: after any sequence of store_group_message calls, every group's log has
\* at most MAX_RETAINED (2000) messages and is exactly the last
\* min(n, 2000) of the n messages appended to it, in append order.
C1_RetentionWindow ==
    \A g \in Groups :
        LET log == GetLog(group_messages, g)
        IN  /\ Len(log) <= MAX_RETAINED
            /\ IsLastK(log, appended[g], Min(Len(appended[g]), MAX_RETAINED))

\* a store call has just evicted the oldest message of a full log
C1_Witness ==
    /\ call.fn = "store_group_message"
    /\ Len(appended[call.group_id]) > MAX_RETAINED
    /\ Len(group_messages[call.group_id]) = MAX_RETAINED
    /\ group_messages[call.group_id][MAX_RETAINED] = call.message

\* C3: with from_last_read and a cursor at T, filter_messages returns only
\* messages of the log stamped strictly after T, in log order; under
\* time_filter "all" it returns every such message.
C3_StrictlyAfterCursor ==
    (call.fn = "filter_messages" /\ call.from_last_read
        /\ call.last_read_time # -1) =>
        /\ \A i \in 1..Len(filtered) :
              /\ filtered[i] \in Range(call.messages)
              /\ filtered[i].timestamp > call.last_read_time
        /\ InArrivalOrder(filtered)
        /\ call.time_filter = "all" =>
              Range(filtered) =
                 {m \in Range(call.messages) : m.timestamp > call.last_read_time}

\* the scenario of the claim: log [A@0, B@1, C@2, D@3], cursor at 1, result [C, D]
C3_Witness ==
    /\ call.fn = "filter_messages" /\ call.from_last_read
    /\ call.time_filter = "all"
    /\ call.last_read_time = 1
    /\ Len(call.messages) = 4
    /\ \A i \in 1..4 : call.messages[i].timestamp = i - 1
    /\ filtered = <<call.messages[3], call.messages[4]>>

\* C4: with from_last_read and no cursor, filter_messages returns messages
\* among the last min(50, len) of the log only, in log order, and under
\* time_filter "all" exactly those.
C4_FallbackLast50 ==
    (call.fn = "filter_messages" /\ call.from_last_read
        /\ call.last_read_time = -1) =>
        LET n == Len(call.messages)
            k == Min(LAST_READ_FALLBACK, n)
        IN  /\ \A i \in 1..Len(filtered) :
                  \E j \in (n - k + 1)..n : filtered[i] = call.messages[j]
            /\ InArrivalOrder(filtered)
            /\ call.time_filter = "all" => IsLastK(filtered, call.messages, k)

\* a first-time caller of a log longer than 50 gets exactly its last 50
C4_Witness ==
    /\ call.fn = "filter_messages" /\ call.from_last_read
    /\ call.last_read_time = -1
    /\ call.time_filter = "all"
    /\ Len(call.messages) > LAST_READ_FALLBACK
    /\ Len(filtered) = LAST_READ_FALLBACK
    /\ filtered[1] = call.messages[Len(call.messages) - LAST_READ_FALLBACK + 1]

\* C5: with time_filter "all" and from_last_read false, filter_messages
\* returns exactly the last min(100, len) messages of the log, in log order.
C5_AllCapLast100 ==
    (call.fn = "filter_messages" /\ ~call.from_last_read
        /\ call.time_filter = "all") =>
        IsLastK(filtered, call.messages, Min(ALL_CAP, Len(call.messages)))

\* the scenario of the claim: a log of 150 messages yields its last 100
C5_Witness ==
    /\ call.fn = "filter_messages" /\ ~call.from_last_read
    /\ call.time_filter = "all"
    /\ Len(call.messages) = ALL_CAP + LAST_READ_FALLBACK
    /\ Len(filtered) = ALL_CAP
    /\ filtered[1] = call.messages[LAST_READ_FALLBACK + 1]

\* C6: apply_token_limit returns a contiguous suffix of its input, and the
\* input itself when the input's estimated cost is within the budget
\* (chars / 4 <= 8000).
C6_ContiguousSuffix ==
    call.fn = "apply_token_limit" =>
        /\ \E k \in 0..Len(call.messages) : IsLastK(truncated, call.messages, k)
        /\ SumChars(call.messages) <= BudgetChars => truncated = call.messages

\* a truncation that dropped some messages and kept others
C6_Witness ==
    /\ call.fn = "apply_token_limit"
    /\ truncated # <<>>
    /\ Len(truncated) < Len(call.messages)

\* C7 (as claimed): a non-empty input to apply_token_limit gives a non-empty
\* output.
C7_NonEmptyOutput ==
    (call.fn = "apply_token_limit" /\ call.messages # <<>>) => truncated # <<>>

\* C8: the output of apply_token_limit costs at most the budget, and every
\* longer suffix of the input costs more than the budget.
C8_LargestFittingSuffix ==
    call.fn = "apply_token_limit" =>
        LET n == Len(call.messages)
        IN  /\ SumChars(truncated) <= BudgetChars
            /\ \A k \in (Len(truncated) + 1)..n :
                  SumChars(SubSeq(call.messages, n - k + 1, n)) > BudgetChars

\* a truncation whose output fills the budget to the last char
C8_Witness ==
    /\ call.fn = "apply_token_limit"
    /\ Len(truncated) < Len(call.messages)
    /\ SumChars(truncated) = BudgetChars

-----------------------------------------------------------------------------
(* Properties of the webhook *)

\* The handler is past generate_group_summary and no summary came out of it
NoSummaryProduced ==
    \/ summary.kind \in {"no_messages", "none_found"}
    \/ summary.kind = "summary" /\ summary.body = FailureSentinel

\* C2 (as claimed): the step that ends a summarize request leaves the read
\* cursors as they were when no summary was produced (empty log, empty
\* filter result, summarizer failure) or the outbound send failed.
C2_CursorOnlyAfterSuccess ==
    [][(pc = "cursor" /\ (NoSummaryProduced \/ sent # "ok"))
          => user_last_read' = user_last_read]_vars

\* C9: the step that runs generate_group_summary leaves group_messages - its
\* set of known group ids and every log - as it was, whatever the outcome.
C9_SummaryReadsOnly ==
    [][(pc = "dispatch" /\ pc' = "send" /\ summary'.kind # "guidance")
          => group_messages' = group_messages]_vars

\* generate_group_summary has returned for a group id the store never saw
C9_Witness ==
    /\ pc = "send"
    /\ call.fn = "generate_group_summary"
    /\ summary.kind = "no_messages"
    /\ call.group_id \notin DOMAIN group_messages

\* C10 (as claimed): when the external summarizer call fails, the value of
\* generate_group_summary is the fixed failure sentinel.
C10_FailureSentinelReturned ==
    (pc = "send" /\ call.fn = "generate_group_summary"
        /\ call.summarizer = "failed") => summary = FailureSentinel

\* The classifier's output is malformed or missing: the call raised, the text
\* was no JSON, the JSON value is no object, or the object has no action
Malformed(outcome) ==
    \/ outcome.kind \in {"raises", "not_json"}
    \/ outcome.value.shape = "other"
    \/ outcome.value.action = "absent"

\* C11 (as claimed): once the classifier's output was malformed or missing,
\* the handler goes on to send the guidance message and never raises.
C11_MalformedIsUnknown ==
    (call.fn = "parse_command_intent" /\ Malformed(call.classifier)) =>
        /\ pc \in {"dispatch", "send", "respond"}
        /\ pc \in {"send", "respond"} => summary.kind = "guidance"

\* C12 (as claimed): every event the webhook has finished handling was
\* answered with the handler's "received" response.
C12_EveryEventAcknowledged ==
    (pc = "idle" /\ nevents > 0) => response = "received"

\* The webhook takes in a regular message and appends it
AppendStep == \E e \in Events, t \in 0..MaxTime : WebhookStore(e, t)

\* C13 (as claimed): while the intent-classification call of a group command
\* is in flight, an inbound regular message can be appended before the call
\* returns.
C13_AppendNotBlocked ==
    (pc = "parse" /\ nevents < MaxEvents) => ENABLED AppendStep

SummaryCallFilter ==
    filter_messages(GetLog(group_messages, call.group_id), call.author,
                    call.group_id, call.time_filter, call.from_last_read,
                    user_last_read, now)

\* C15: generate_group_summary returns "No messages to summarize yet!"
\* exactly when the group's log is empty or the group is unknown, and the
\* different text "No messages found for '<time_filter>'" exactly when the log
\* is non-empty and filter_messages returns nothing; in both cases the
\* external summarizer is not called.
C15_TwoSentinels ==
    (pc = "send" /\ call.fn = "generate_group_summary") =>
        LET log == GetLog(group_messages, call.group_id)
        IN  /\ summary.kind = "no_messages" <=> log = <<>>
            /\ summary.kind = "none_found" <=>
                   (log # <<>> /\ SummaryCallFilter = <<>>)
            /\ summary.kind \in {"no_messages", "none_found"} =>
                   call.summarizer = "not_called"
            /\ summary.kind \in {"no_messages", "none_found", "summary"}
            /\ summary.kind = "summary" => call.summarizer # "not_called"

\* a summary asked of a non-empty log whose messages all fall outside the
\* filter
C15_Witness ==
    /\ pc = "send"
    /\ call.fn = "generate_group_summary"
    /\ GetLog(group_messages, call.group_id) # <<>>
    /\ summary.kind = "none_found"
    /\ call.summarizer = "not_called"

\* xs is what the last-read stage (main.py:261-267) makes of the call's input
IsLastReadStageOutput(xs) ==
    IF ~call.from_last_read THEN xs = call.messages
    ELSE IF call.last_read_time = -1
    THEN IsLastK(xs, call.messages, Min(LAST_READ_FALLBACK, Len(call.messages)))
    ELSE /\ InArrivalOrder(xs)
         /\ Range(xs) = {m \in Range(call.messages) :
                            m.timestamp > call.last_read_time}

\* C16: whatever time_filter (a value the code does not know included) and
\* from_last_read are, filter_messages returns messages of its input, each at
\* most once and in the input's order; under an unrecognized time_filter, and
\* under "all" with from_last_read, the result is the output of the last-read
\* stage, neither filtered by time nor capped.
C16_OrderPreservingSubsequence ==
    call.fn = "filter_messages" =>
        /\ \A i \in 1..Len(filtered) : filtered[i] \in Range(call.messages)
        /\ InArrivalOrder(filtered)
        /\ (call.time_filter \notin {"today", "last_hour", "last_2_hours",
                                     "last_day", "all"}
            \/ (call.time_filter = "all" /\ call.from_last_read)) =>
               IsLastReadStageOutput(filtered)

\* an unrecognized time_filter with a cursor behind more than 100 messages,
\* all of them old: every one of them is returned
C16_Witness ==
    /\ call.fn = "filter_messages"
    /\ call.time_filter = "weekly"
    /\ call.from_last_read
    /\ call.last_read_time = 0
    /\ Len(call.messages) > ALL_CAP
    /\ call.now > call.messages[Len(call.messages)].timestamp + ONE_DAY
    /\ Len(filtered) > ALL_CAP
    /\ Len(filtered) < Len(call.messages)

\* C17 (as claimed): once a summarize request of user u for group g has set
\* u's cursor, every message appended to g afterwards is stamped strictly
\* after the cursor, and u's next from_last_read filter with time_filter
\* "all" returns it.
C17_NoMessageSkipped ==
    [][(pc = "idle" /\ call'.fn = "store_group_message") =>
          LET g == call'.group_id
              m == call'.message
          IN  \A u \in DOMAIN user_last_read :
                 g \in DOMAIN user_last_read[u] =>
                    /\ m.timestamp > user_last_read[u][g]
                    /\ m \in Range(filter_messages(group_messages'[g], u, g, "all",
                                                   TRUE, user_last_read', now'))]_vars

\* C18: each event takes one route and has the effects of that route only.
\* The step that receives an event starts exactly one of store_group_message,
\* handle_group_command and handle_dm_command; a message is appended to a log
\* only by the step that receives a stored event, and that handler then
\* returns; the classifier, generate_group_summary and the cursor write happen
\* only in the handler of a command, which appends nothing; so does the
\* handler of a DM.  This holds in sandbox and in production mode.
C18_OneRoute ==
    [][/\ nevents' = nevents + 1 =>
             /\ ev'.route \in {"store", "command", "dm"}
             /\ ev'.route = "store" <=> call'.fn = "store_group_message"
             /\ ev'.route = "command" <=> call'.fn = "handle_group_command"
             /\ ev'.route = "dm" <=> call'.fn = "handle_dm_command"
       /\ (appended' # appended \/ group_messages' # group_messages) =>
             /\ nevents' = nevents + 1
             /\ ev'.route = "store"
             /\ Len(appended'[ev'.group_id]) = Len(appended[ev'.group_id]) + 1
             /\ pc' = "respond"
             /\ user_last_read' = user_last_read
       /\ (\/ user_last_read' # user_last_read
           \/ /\ call' # call
              /\ call'.fn \in {"parse_command_intent", "generate_group_summary"}) =>
             /\ ev.route = "command"
             /\ ev' = ev
       /\ (pc # "idle" /\ ev.route \in {"store", "dm"}) =>
             /\ pc = "respond"
             /\ call' = NoCall
             /\ user_last_read' = user_last_read
             /\ pc' = "idle"]_vars

\* in either mode, a summarize command is answered with a summary of the one
\* message stored before it: the command itself is in no log
C18_Witness ==
    /\ pc = "respond"
    /\ ev.route = "command"
    /\ summary.kind = "summary"
    /\ call.summarizer = "ok"
    /\ nevents = 2
    /\ Len(appended[ev.group_id]) = 1
    /\ \A g \in Groups \ {ev.group_id} : appended[g] = <<>>
    /\ ev.author \in DOMAIN user_last_read

-----------------------------------------------------------------------------
(* SpecRepeat: group commands following one another with no message stored
   in between, from stores that earlier events have filled *)

\* the group the earlier messages went to
FilledGroup == IF SANDBOX_MODE THEN SANDBOX_GROUP_ID ELSE "g1"

InitRepeat ==
    /\ SANDBOX_MODE \in BOOLEAN
    /\ \E n \in 0..MaxEvents :
          LET log == Prefilled(n, 0, 1)
          IN  /\ group_messages = IF n = 0 THEN EmptyDict
                                  ELSE [g \in {FilledGroup} |-> log]
              /\ appended = [g \in Groups |-> IF g = FilledGroup THEN log ELSE <<>>]
              /\ now \in LastStamp(log)..MaxTime
    /\ user_last_read = EmptyDict
    /\ last_requester = EmptyDict
    /\ pc = "idle"
    /\ ev = NoEvent
    /\ intent = NoIntent
    /\ summary = NoSummary
    /\ sent = "none"
    /\ response = "none"
    /\ nevents = 0
    /\ call = NoCall
    /\ filtered = <<>>
    /\ truncated = <<>>

NextRepeat ==
    \/ \E e \in Events : WebhookCommand(e)
    \/ \E o \in ClassifierOutcomes : ParseIntent(o)
    \/ DispatchRaise
    \/ \E ok \in BOOLEAN, t \in 0..MaxTime : DispatchSummarize(ok, t)
    \/ DispatchOther
    \/ \E ok \in BOOLEAN : SendGroupMessage(ok)
    \/ \E t \in 0..MaxTime : UpdateLastRead(t)
    \/ Respond
    \/ Raise

SpecRepeat == InitRepeat /\ [][NextRepeat]_vars

====
